---- MODULE Spec2Model ----
(***************************************************************************)
(* A model of msmd_implementation.py: the multilevel shared page table     *)
(* (MultilevelSharedPageTable), the deduplication engine                   *)
(* (MemoryDeduplicationEngine), application clustering                     *)
(* (FuzzyHashingModule), the page similarity search (GeneticAlgorithm-     *)
(* Module) and the orchestrator (mSMDOrchestrator).                        *)
(*                                                                         *)
(* Python values are modelled as follows.                                  *)
(*   - None is the empty tuple <<>>, a present value x is <<x>>.           *)
(*   - A dict that the code only subscripts is a function; a dict that the *)
(*     code iterates is a sequence of <<key, value>> items in insertion    *)
(*     order.                                                              *)
(*   - A float score (0-100) is an integer number of hundredths of a       *)
(*     percent, rounded down (100.0 is 10000); for the digests and dumps   *)
(*     used, no comparison the code makes falls between two hundredths.    *)
(*   - An exception is the name of its class; "none" is a normal return.   *)
(***************************************************************************)
EXTENDS Integers, Sequences, FiniteSets, TLC

VARIABLES
    indexes,    \* heap of MultilevelSharedPageTable objects, by reference 1..
    engines,    \* heap of MemoryDeduplicationEngine objects, by reference 1..
    orch,       \* the mSMDOrchestrator's fields mspt, dedup_engine, results
    cl,         \* the frame of a running cluster_applications call
    call,       \* the last completed call: operation, arguments, result
    hist,       \* history: calls completed so far and what they were given
    rng         \* the draws the `random` module will hand out next, in order

vars == <<indexes, engines, orch, cl, call, hist, rng>>

----------------------------------------------------------------------------
(* Bounds of the model.                                                    *)

MaxPageId == 4      \* page ids mentioned by build_table's inputs: 1..MaxPageId
MaxPairs == 2       \* length of similar_page_pairs
MaxVmPageId == 2    \* page ids of the pages given to merge_pages: 1..MaxVmPageId
MaxVmPages == 2     \* pages in one vm_pages argument, over all its VMs
MaxMerges == 2      \* merge_pages calls on one engine
MaxApps == 3        \* applications given to cluster_applications
MaxDraws == 1       \* iterations of the mutation loop that `random` lets mutate
MaxOffline == 1     \* offline phases run on one orchestrator
MaxOnline == 2      \* online phases run on one orchestrator
MaxScoreLen == 3    \* length of a digest or an object dump scored on its own
MaxExplorerPages == 3   \* pages handed to detect_similar_pages
MaxPopulation == 3      \* largest population_size of an explorer
MaxGenerations == 2     \* largest generations of an explorer

----------------------------------------------------------------------------
(* Python values.                                                          *)

None == <<>>
Some(x) == <<x>>

Min(a, b) == IF a < b THEN a ELSE b
Max(a, b) == IF a > b THEN a ELSE b

\* d[k] = v on a dict modelled as a function
Put(d, k, v) == [x \in (DOMAIN d) \cup {k} |-> IF x = k THEN v ELSE d[x]]

\* d.get(k)
Get(d, k) == IF k \in DOMAIN d THEN Some(d[k]) ELSE None

EmptyDict == [x \in {} |-> 0]

\* the elements of a set of integers as a list, ascending
RECURSIVE SetToSeq(_)
SetToSeq(S) ==
    IF S = {} THEN <<>>
    ELSE LET m == CHOOSE x \in S : \A y \in S : x <= y
         IN <<m>> \o SetToSeq(S \ {m})

\* the sequences over S of length at most n
SeqUpTo(S, n) == UNION {[1..k -> S] : k \in 0..n}

\* an iterated dict: items <<key, value>> in insertion order
Keys(d) == {d[i][1] : i \in 1..Len(d)}
Item(d, k) == d[CHOOSE i \in 1..Len(d) : d[i][1] = k][2]

\* d[k] = v: a new key goes last, an old key keeps its place
OrderedPut(d, k, v) ==
    IF k \in Keys(d)
    THEN [i \in 1..Len(d) |-> IF d[i][1] = k THEN <<k, v>> ELSE d[i]]
    ELSE Append(d, <<k, v>>)

\* del d[k]
RECURSIVE OrderedDel(_, _)
OrderedDel(d, k) ==
    IF d = <<>> THEN <<>>
    ELSE IF Head(d)[1] = k THEN Tail(d)
    ELSE <<Head(d)>> \o OrderedDel(Tail(d), k)

RECURSIVE SumSeq(_)
SumSeq(s) == IF s = <<>> THEN 0 ELSE Head(s) + SumSeq(Tail(s))

----------------------------------------------------------------------------
(* Data structures.                                                        *)

PAGE_SIZE == 4096

Page(page_id, vm_id, app_id, content_hash, object_dump) ==
    [page_id |-> page_id, vm_id |-> vm_id, app_id |-> app_id,
     content_hash |-> content_hash, object_dump |-> object_dump,
     size |-> PAGE_SIZE, shared |-> FALSE, cluster_id |-> -1]

SharedPageTableEntry(entry_id, primary_page_id, similar_pages, content_signature, cluster_id) ==
    [entry_id |-> entry_id, primary_page_id |-> primary_page_id,
     similar_pages |-> similar_pages, content_signature |-> content_signature,
     cluster_id |-> cluster_id, created_timestamp |-> 0]

----------------------------------------------------------------------------
(* MultilevelSharedPageTable.                                              *)

\* a table that starts with an entry for pages 1 and 2
NewTableStale ==
    [table |-> Put(EmptyDict, 1, SharedPageTableEntry(1, 1, <<Page(2, 2, 1, "hash2", <<>>)>>, "hash1", 0)),
     page_to_entry |-> Put(Put(EmptyDict, 1, 1), 2, 1), entry_counter |-> 1]

\* __init__
NewTable == [table |-> EmptyDict, page_to_entry |-> EmptyDict, entry_counter |-> 0]

\* self.page_to_entry[page.page_id] = self.entry_counter for the similar pages
RECURSIVE RegisterSimilar(_, _, _)
RegisterSimilar(page_to_entry, similar_pages, entry_id) ==
    IF similar_pages = <<>> THEN page_to_entry
    ELSE RegisterSimilar(Put(page_to_entry, Head(similar_pages).page_id, entry_id),
                         Tail(similar_pages), entry_id)

\* create_entry without the loop that registers the similar pages
create_entry_primary_only(t, primary_page, similar_pages, cluster_id) ==
    LET entry == SharedPageTableEntry(
                     t.entry_counter, primary_page.page_id,
                     [i \in 1..Len(similar_pages) |-> similar_pages[i].page_id],
                     primary_page.content_hash, cluster_id)
    IN [table |-> Put(t.table, t.entry_counter, entry),
        page_to_entry |-> Put(t.page_to_entry, primary_page.page_id, t.entry_counter),
        entry_counter |-> t.entry_counter + 1]

create_entry(t, primary_page, similar_pages, cluster_id) ==
    LET entry == SharedPageTableEntry(
                     t.entry_counter, primary_page.page_id,
                     [i \in 1..Len(similar_pages) |-> similar_pages[i].page_id],
                     primary_page.content_hash, cluster_id)
    IN [table |-> Put(t.table, t.entry_counter, entry),
        page_to_entry |->
            RegisterSimilar(Put(t.page_to_entry, primary_page.page_id, t.entry_counter),
                            similar_pages, t.entry_counter),
        entry_counter |-> t.entry_counter + 1]

\* page_id_to_page = {p.page_id: p for p in pages}
RECURSIVE PageIdToPage(_)
PageIdToPage(pages) ==
    IF pages = <<>> THEN EmptyDict
    ELSE LET n == Len(pages)
         IN Put(PageIdToPage(SubSeq(pages, 1, n - 1)), pages[n].page_id, pages[n])

\* page_groups[key].add(x) on a defaultdict(set), kept in insertion order
GroupAdd(groups, key, x) ==
    IF \E i \in 1..Len(groups) : groups[i][1] = key
    THEN [i \in 1..Len(groups) |->
             IF groups[i][1] = key THEN <<key, groups[i][2] \cup {x}>> ELSE groups[i]]
    ELSE Append(groups, <<key, {x}>>)

\* the test that looks at the second page id only
UnclaimedSecond(page_id1, page_id2, processed) == page_id2 \notin processed

\* the test with `and` mistaken for `or`
UnclaimedEither(page_id1, page_id2, processed) ==
    page_id1 \notin processed \/ page_id2 \notin processed

\* the test that lets a pair start a group
Unclaimed(page_id1, page_id2, processed) ==
    page_id1 \notin processed /\ page_id2 \notin processed

\* the first loop without `processed.add`: no page id is ever claimed
RECURSIVE GroupPairsUnclaimed(_, _, _, _)
GroupPairsUnclaimed(pairs, start, groups, processed) ==
    IF start > Len(pairs) THEN <<groups, processed>>
    ELSE GroupPairsUnclaimed(pairs, start + 1,
                             GroupAdd(GroupAdd(groups, pairs[start][1], pairs[start][1]),
                                      pairs[start][1], pairs[start][2]),
                             processed)

\* the first loop of build_table, from the pair at index start on:
\* <<page_groups, processed>> after the pairs.  The pairs that fail the test
\* change nothing, so the loop is taken from one passing pair to the next.
RECURSIVE GroupPairs(_, _, _, _)
GroupPairs(pairs, start, groups, processed) ==
    LET passing == {i \in start..Len(pairs) : Unclaimed(pairs[i][1], pairs[i][2], processed)}
    IN IF passing = {} THEN <<groups, processed>>
       ELSE LET i == CHOOSE k \in passing : \A m \in passing : k <= m
                page_id1 == pairs[i][1]
                page_id2 == pairs[i][2]
            IN GroupPairs(pairs, i + 1,
                          GroupAdd(GroupAdd(groups, page_id1, page_id1), page_id1, page_id2),
                          processed \cup {page_id1, page_id2})

\* `pid in page_id_to_page`
KnownPage(page_id_to_page, pid) == pid \in DOMAIN page_id_to_page

\* the filter without `pid in page_id_to_page`
IsSimilarMemberUnchecked(page_id_to_page, pid, primary_id) == pid # primary_id

\* the filter of the similar_pages comprehension
IsSimilarMember(page_id_to_page, pid, primary_id) ==
    KnownPage(page_id_to_page, pid) /\ pid # primary_id

\* the ids pid of related_ids that pass the filter, in iteration order (a set
\* of small ints is iterated in ascending order; no group ever holds more
\* than one id besides its key)
SimilarIds(page_id_to_page, related_ids, primary_id) ==
    SetToSeq({pid \in related_ids : IsSimilarMember(page_id_to_page, pid, primary_id)})

\* page_id_to_page[pid] raises KeyError for a pid that is not a key
RaisesKeyError(page_id_to_page, ids) ==
    \E i \in 1..Len(ids) : ids[i] \notin DOMAIN page_id_to_page

\* the second loop of build_table, over page_groups.items()
RECURSIVE CreateEntries(_, _, _, _, _)
CreateEntries(t, groups, page_id_to_page, created_entries, cluster_id) ==
    IF groups = <<>> THEN [table |-> t, ret |-> created_entries, raised |-> FALSE]
    ELSE LET primary_id == Head(groups)[1]
             related_ids == Head(groups)[2]
             ids == SimilarIds(page_id_to_page, related_ids, primary_id)
         IN IF ~KnownPage(page_id_to_page, primary_id)
            THEN CreateEntries(t, Tail(groups), page_id_to_page, created_entries, cluster_id)
            ELSE IF RaisesKeyError(page_id_to_page, <<primary_id>> \o ids)
            THEN [table |-> t, ret |-> created_entries, raised |-> TRUE]
            ELSE IF ids = <<>>
            THEN CreateEntries(t, Tail(groups), page_id_to_page, created_entries, cluster_id)
            ELSE CreateEntries(
                     create_entry(t, page_id_to_page[primary_id],
                                  [i \in 1..Len(ids) |-> page_id_to_page[ids[i]]], cluster_id),
                     Tail(groups), page_id_to_page, created_entries + 1, cluster_id + 1)

\* build_table: the table afterwards, the number of entries created, and
\* whether an exception was raised
build_table(t, pages, similar_page_pairs) ==
    LET page_id_to_page == PageIdToPage(pages)
        grouped == GroupPairs(similar_page_pairs, 1, <<>>, {})
    IN CreateEntries(t, grouped[1], page_id_to_page, 0, 0)

lookup(t, page_id) ==
    LET entry_id == Get(t.page_to_entry, page_id)
    IN IF entry_id # None THEN Get(t.table, entry_id[1]) ELSE None

get_shareable_pages(t, page_id) ==
    LET entry == lookup(t, page_id)
    IN IF entry # None THEN entry[1].similar_pages ELSE <<>>

----------------------------------------------------------------------------
(* MemoryDeduplicationEngine.                                              *)

\* __init__: mspt is a reference into the heap of tables: Some(i), or None
NewEngine(mspt) == [mspt |-> mspt, dedup_count |-> 0, total_memory_saved |-> 0]

\* all_pages: the (vm_id, page) tuples of vm_pages.items(), flattened
RECURSIVE Flatten(_)
Flatten(vm_pages) ==
    IF vm_pages = <<>> THEN <<>>
    ELSE LET vm_id == Head(vm_pages)[1]
             pages == Head(vm_pages)[2]
         IN [i \in 1..Len(pages) |-> <<vm_id, pages[i]>>] \o Flatten(Tail(vm_pages))

\* tuple(sorted([page_id, other_page_id]))
PairKey(page_id, other_page_id) ==
    IF page_id <= other_page_id THEN <<page_id, other_page_id>>
    ELSE <<other_page_id, page_id>>

\* the test without the set of pairs already counted
NotYetMergedAlways(pair_key, merged_pairs) == TRUE

\* `pair_key not in merged_pairs`
NotYetMerged(pair_key, merged_pairs) == pair_key \notin merged_pairs

\* the inner loop of merge_pages, over the shareable pages of one page
RECURSIVE MergeShareable(_, _, _)
MergeShareable(page, shareable_pages, acc) ==
    IF shareable_pages = <<>> THEN acc
    ELSE LET pair_key == PairKey(page.page_id, Head(shareable_pages))
         IN IF NotYetMerged(pair_key, acc.merged_pairs)
            THEN MergeShareable(page, Tail(shareable_pages),
                                [pages_merged |-> acc.pages_merged + 1,
                                 memory_saved |-> acc.memory_saved + page.size,
                                 merged_pairs |-> acc.merged_pairs \cup {pair_key}])
            ELSE MergeShareable(page, Tail(shareable_pages), acc)

\* the outer loop of merge_pages, over all_pages
RECURSIVE MergeScan(_, _, _)
MergeScan(t, all_pages, acc) ==
    IF all_pages = <<>> THEN acc
    ELSE LET page == Head(all_pages)[2]
             shareable_pages == get_shareable_pages(t, page.page_id)
         IN MergeScan(t, Tail(all_pages), MergeShareable(page, shareable_pages, acc))

\* the counters overwritten instead of added to
AccumulateOverwrite(e, pages_merged, memory_saved) ==
    [e EXCEPT !.dedup_count = pages_merged, !.total_memory_saved = memory_saved]

\* the cumulative bytes counter fed with the number of merges
AccumulateSwapped(e, pages_merged, memory_saved) ==
    [e EXCEPT !.dedup_count = @ + pages_merged, !.total_memory_saved = @ + pages_merged]

\* self.dedup_count += pages_merged; self.total_memory_saved += memory_saved
Accumulate(e, pages_merged, memory_saved) ==
    [e EXCEPT !.dedup_count = @ + pages_merged, !.total_memory_saved = @ + memory_saved]

\* the end of merge_pages: the counters updated, the tuple returned
MergeResult(e, all_pages, acc) ==
    [engine |-> Accumulate(e, acc.pages_merged, acc.memory_saved),
     ret |-> <<acc.pages_merged, acc.memory_saved>>,
     lookups |-> Len(all_pages)]

\* merge_pages on engine e whose table is t: the engine afterwards, the
\* returned (pages_merged, memory_saved) and the number of table lookups made
merge_pages(e, t, vm_pages) ==
    LET all_pages == Flatten(vm_pages)
    IN MergeResult(e, all_pages,
                   MergeScan(t, all_pages,
                             [pages_merged |-> 0, memory_saved |-> 0, merged_pairs |-> {}]))

\* a float quotient n / d, kept as the pair <<n, d>>
Quotient(n, d) == <<n, d>>

\* the statistics with the average computed without the `dedup_count > 0` test
get_statistics_unguarded(e) ==
    [total_pages_merged |-> e.dedup_count,
     total_memory_saved_bytes |-> e.total_memory_saved,
     total_memory_saved_mb |-> Quotient(e.total_memory_saved, 1024 * 1024),
     average_page_savings |-> Quotient(e.total_memory_saved * 1024, e.dedup_count)]

get_statistics(e) ==
    [total_pages_merged |-> e.dedup_count,
     total_memory_saved_bytes |-> e.total_memory_saved,
     total_memory_saved_mb |-> Quotient(e.total_memory_saved, 1024 * 1024),
     average_page_savings |->
         IF e.dedup_count > 0
         THEN Quotient(e.total_memory_saved * 1024, e.dedup_count)
         ELSE Quotient(0, 1)]

----------------------------------------------------------------------------
(* FuzzyHashingModule.                                                     *)

SIMILARITY_THRESHOLD == 30
HASH_LENGTH == 16

Application(app_id, vm_id, name, fuzzy_hash) ==
    [app_id |-> app_id, vm_id |-> vm_id, name |-> name, fuzzy_hash |-> fuzzy_hash,
     pages |-> <<>>, cluster_id |-> -1]

\* the mismatch count taken one position out of step
MismatchesShifted(hash1, hash2) ==
    Cardinality({i \in 1..(Min(Len(hash1), Len(hash2)) - 1) : hash1[i] # hash2[i + 1]})

\* sum(c1 != c2 for c1, c2 in zip(hash1, hash2))
Mismatches(hash1, hash2) ==
    Cardinality({i \in 1..Min(Len(hash1), Len(hash2)) : hash1[i] # hash2[i]})

\* calculate_similarity, in hundredths of a percent (hash1 is not empty)
calculate_similarity(hash1, hash2) ==
    IF hash1 = hash2 THEN 10000
    ELSE LET distance == Mismatches(hash1, hash2)
             max_distance == Len(hash1)
         IN ((max_distance - distance) * 10000) \div max_distance

\* the exception calculate_similarity leaves with: the division by
\* max_distance fails for an empty hash1 that differs from hash2
SimilarityError(hash1, hash2) ==
    IF hash1 # hash2 /\ Len(hash1) = 0 THEN "ZeroDivisionError" ELSE "none"

\* the pairwise similarity matrix: keys (app1_id, app2_id) for i < j, in the
\* order of the two nested loops
RECURSIVE SimilarityMatrix(_, _, _, _)
SimilarityMatrix(applications, i, j, matrix) ==
    IF i > Len(applications) THEN matrix
    ELSE IF j > Len(applications) THEN SimilarityMatrix(applications, i + 1, 1, matrix)
    ELSE IF i < j
    THEN SimilarityMatrix(applications, i, j + 1,
             OrderedPut(matrix, <<applications[i].app_id, applications[j].app_id>>,
                        calculate_similarity(applications[i].fuzzy_hash,
                                             applications[j].fuzzy_hash)))
    ELSE SimilarityMatrix(applications, i, j + 1, matrix)

\* cluster_mapping = {app.app_id: i for i, app in enumerate(applications)}
RECURSIVE InitialMapping(_, _)
InitialMapping(applications, n) ==
    IF n = 0 THEN EmptyDict
    ELSE Put(InitialMapping(applications, n - 1), applications[n].app_id, n - 1)

\* the test against 50 in place of the threshold
AboveHalf(similarity) == similarity > 50 * 100

\* the test that lets a similarity equal to the threshold pass
AtLeastThreshold(similarity) == similarity >= SIMILARITY_THRESHOLD * 100

\* `similarity > self.SIMILARITY_THRESHOLD`
AboveThreshold(similarity) == similarity > SIMILARITY_THRESHOLD * 100

\* the scan of similarity_matrix.items() for the best pair: best is
\* <<best_sim, best_pair>>, best_pair None or (cluster1, cluster2, app1, app2)
RECURSIVE FindBestPair(_, _, _)
FindBestPair(items, cluster_mapping, best) ==
    IF items = <<>> THEN best
    ELSE LET app1_id == Head(items)[1][1]
             app2_id == Head(items)[1][2]
             similarity == Head(items)[2]
             cluster1 == Get(cluster_mapping, app1_id)
             cluster2 == Get(cluster_mapping, app2_id)
         IN IF /\ AboveThreshold(similarity)
               /\ cluster1 # None /\ cluster2 # None /\ cluster1 # cluster2
               /\ similarity > best[1]
            THEN FindBestPair(Tail(items), cluster_mapping,
                              <<similarity, Some(<<cluster1[1], cluster2[1], app1_id, app2_id>>)>>)
            ELSE FindBestPair(Tail(items), cluster_mapping, best)

\* cluster_mapping[app_id] = cluster_id_counter for the members
RECURSIVE Remap(_, _, _)
Remap(cluster_mapping, members, cluster_id) ==
    IF members = <<>> THEN cluster_mapping
    ELSE Remap(Put(cluster_mapping, Head(members), cluster_id), Tail(members), cluster_id)

\* the merge that forgets `del clusters[c2]`
MergeClustersKeepSecond(f, best_sim, best_pair) ==
    LET c1 == best_pair[1]
        c2 == best_pair[2]
        members == Item(f.clusters, c1) \o Item(f.clusters, c2)
    IN [f EXCEPT
          !.clusters = OrderedDel(OrderedPut(f.clusters, f.cluster_id_counter, members), c1),
          !.cluster_mapping = Remap(f.cluster_mapping, members, f.cluster_id_counter),
          !.cluster_id_counter = @ + 1,
          !.merged = TRUE,
          !.merges = Append(@, <<best_pair[3], best_pair[4], best_sim>>)]

\* the merge that forgets `merged = True`
MergeClustersOnce(f, best_sim, best_pair) ==
    LET c1 == best_pair[1]
        c2 == best_pair[2]
        members == Item(f.clusters, c1) \o Item(f.clusters, c2)
    IN [f EXCEPT
          !.clusters = OrderedDel(OrderedDel(
                           OrderedPut(f.clusters, f.cluster_id_counter, members), c1), c2),
          !.cluster_mapping = Remap(f.cluster_mapping, members, f.cluster_id_counter),
          !.cluster_id_counter = @ + 1,
          !.merged = FALSE,
          !.merges = Append(@, <<best_pair[3], best_pair[4], best_sim>>)]

\* the body of `if best_pair:` on the frame f of the call
MergeClusters(f, best_sim, best_pair) ==
    LET c1 == best_pair[1]
        c2 == best_pair[2]
        members == Item(f.clusters, c1) \o Item(f.clusters, c2)
    IN [f EXCEPT
          !.clusters = OrderedDel(OrderedDel(
                           OrderedPut(f.clusters, f.cluster_id_counter, members), c1), c2),
          !.cluster_mapping = Remap(f.cluster_mapping, members, f.cluster_id_counter),
          !.cluster_id_counter = @ + 1,
          !.merged = TRUE,
          !.merges = Append(@, <<best_pair[3], best_pair[4], best_sim>>)]

\* the frame of cluster_applications(applications) on reaching `while merged`
ClusterEntry(applications) ==
    IF applications = <<>>
    THEN [pc |-> "done", applications |-> applications, ret |-> <<>>]
    ELSE [pc |-> "loop", applications |-> applications,
          similarity_matrix |-> SimilarityMatrix(applications, 1, 1, <<>>),
          clusters |-> [i \in 1..Len(applications) |-> <<i - 1, <<applications[i].app_id>>>>],
          cluster_mapping |-> InitialMapping(applications, Len(applications)),
          cluster_id_counter |-> Len(applications),
          merged |-> TRUE,
          merges |-> <<>>]

\* one pass through the body of `while merged`
ClusterPass(f) ==
    LET best == FindBestPair(f.similarity_matrix, f.cluster_mapping, <<-1, None>>)
    IN IF best[2] # None
       THEN MergeClusters(f, best[1], best[2][1])
       ELSE [f EXCEPT !.merged = FALSE]

----------------------------------------------------------------------------
(* GeneticAlgorithmModule.  A fitness is in hundredths of a percent.       *)

POPULATION_SIZE == 50
GENERATIONS == 20
FITNESS_THRESHOLD == 70

\* the row with every substitution charged, matching characters included
RECURSIVE EditRowNoMatch(_, _, _, _, _)
EditRowNoMatch(c1, s2, previous_row, current_row, j) ==
    IF j > Len(s2) THEN current_row
    ELSE LET insertions == previous_row[j + 1] + 1
             deletions == current_row[j] + 1
             substitutions == previous_row[j] + 1
         IN EditRowNoMatch(c1, s2, previous_row,
                           Append(current_row, Min(Min(insertions, deletions), substitutions)), j + 1)

\* one row of the Levenshtein table: current_row after the inner loop
RECURSIVE EditRow(_, _, _, _, _)
EditRow(c1, s2, previous_row, current_row, j) ==
    IF j > Len(s2) THEN current_row
    ELSE LET insertions == previous_row[j + 1] + 1
             deletions == current_row[j] + 1
             substitutions == previous_row[j] + (IF c1 # s2[j] THEN 1 ELSE 0)
         IN EditRow(c1, s2, previous_row,
                    Append(current_row, Min(insertions, Min(deletions, substitutions))),
                    j + 1)

\* the outer loop over s1, from its i-th character on
RECURSIVE EditRows(_, _, _, _)
EditRows(s1, s2, previous_row, i) ==
    IF i > Len(s1) THEN previous_row
    ELSE EditRows(s1, s2, EditRow(s1[i], s2, previous_row, <<i>>, 1), i + 1)

edit_distance(s1, s2) ==
    LET a == IF Len(s1) < Len(s2) THEN s2 ELSE s1
        b == IF Len(s1) < Len(s2) THEN s1 ELSE s2
    IN IF Len(b) = 0 THEN Len(a)
       ELSE EditRows(a, b, [k \in 1..(Len(b) + 1) |-> k - 1], 1)[Len(b) + 1]

fitness_function(page1, page2) ==
    LET dump1 == page1.object_dump
        dump2 == page2.object_dump
    IN IF dump1 = dump2 THEN 10000
       ELSE LET distance == edit_distance(dump1, dump2)
                max_len == Max(Len(dump1), Len(dump2))
            IN IF max_len = 0 THEN 10000
               ELSE Max(0, Min(10000, ((max_len - distance) * 10000) \div max_len))

\* [(pages[i], pages[j]) for i in range(len(pages)) for j in range(i + 1, len(pages))]
RECURSIVE InitialPopulation(_, _, _)
InitialPopulation(pages, i, j) ==
    IF i > Len(pages) THEN <<>>
    ELSE IF j > Len(pages) THEN InitialPopulation(pages, i + 1, i + 2)
    ELSE <<<<pages[i], pages[j]>>>> \o InitialPopulation(pages, i, j + 1)

\* sorted(..., reverse=True): a stable sort, so among equal scores the
\* earlier index stays first.  Insert index i into a sorted list of indices.
RECURSIVE InsertSorted(_, _, _)
InsertSorted(sorted_indices, i, fitness_scores) ==
    IF sorted_indices = <<>> THEN <<i>>
    ELSE IF fitness_scores[Head(sorted_indices)] >= fitness_scores[i]
    THEN <<Head(sorted_indices)>> \o InsertSorted(Tail(sorted_indices), i, fitness_scores)
    ELSE <<i>> \o sorted_indices

RECURSIVE SortedIndices(_, _)
SortedIndices(fitness_scores, n) ==
    IF n = 0 THEN <<>>
    ELSE InsertSorted(SortedIndices(fitness_scores, n - 1), n, fitness_scores)

\* the slice that keeps everything
SliceAll(s, stop) == s

\* s[:stop]
Slice(s, stop) ==
    LET n == IF stop >= 0 THEN Min(stop, Len(s)) ELSE Max(0, Len(s) + stop)
    IN SubSeq(s, 1, n)

\* the test with the comparison turned round
IsSimilarFitnessBelow(fitness) == fitness < FITNESS_THRESHOLD * 100

\* `fitness > 70`
IsSimilarFitness(fitness) == fitness > FITNESS_THRESHOLD * 100

\* the tuples appended to similar_pairs by one generation
RECURSIVE HighFitnessPairs(_, _)
HighFitnessPairs(selected_population, selected_fitness) ==
    IF selected_population = <<>> THEN <<>>
    ELSE (IF IsSimilarFitness(Head(selected_fitness))
          THEN <<<<Head(selected_population)[1].page_id,
                   Head(selected_population)[2].page_id, Head(selected_fitness)>>>>
          ELSE <<>>)
         \o HighFitnessPairs(Tail(selected_population), Tail(selected_fitness))

\* a draw of `random`: None when random.random() >= mutation_rate (and when
\* no draw is left), else the three random.randint results
NoMutation == None
RandInt(r, n) == r % n

\* the mutation loop: `iterations` passes over new_population, drawing from tape
RECURSIVE Mutate(_, _, _, _)
Mutate(pages, new_population, iterations, tape) ==
    IF iterations = 0 THEN [population |-> new_population, tape |-> tape]
    ELSE IF tape = <<>> \/ Head(tape) = NoMutation
    THEN Mutate(pages, new_population, iterations - 1,
                IF tape = <<>> THEN tape ELSE Tail(tape))
    ELSE LET idx == RandInt(Head(tape)[1], Len(pages))
             page_idx == RandInt(Head(tape)[2], Len(pages))
             pair_idx == RandInt(Head(tape)[3], Len(new_population))
         IN Mutate(pages,
                   [new_population EXCEPT ![pair_idx + 1] = <<pages[idx + 1], pages[page_idx + 1]>>],
                   iterations - 1, Tail(tape))

\* fitness_scores = [self.fitness_function(p1, p2) for p1, p2 in population]
FitnessScores(population) ==
    [k \in 1..Len(population) |-> fitness_function(population[k][1], population[k][2])]

\* [xs[i] for i in sorted_indices]
Pick(xs, sorted_indices) == [k \in 1..Len(sorted_indices) |-> xs[sorted_indices[k]]]

\* the generations loop, `generations` passes left; the three operators are
\* the body of one pass, cut where a value is bound.  `trace` keeps, for each
\* pass, the locals population, fitness_scores and sorted_indices[:P].
RECURSIVE Generations(_, _, _, _, _, _, _)
GenerationMutated(pages, population_size, generations, similar_pairs, mutated, trace) ==
    Generations(pages, mutated.population, population_size, generations - 1,
                similar_pairs, mutated.tape, trace)

GenerationSelected(pages, population_size, generations, similar_pairs, tape, selected_population, selected_fitness, trace) ==
    GenerationMutated(pages, population_size, generations,
                      similar_pairs \o HighFitnessPairs(selected_population, selected_fitness),
                      Mutate(pages, selected_population, Len(selected_population) \div 2, tape),
                      trace)

GenerationScored(pages, population, population_size, generations, similar_pairs, tape, fitness_scores, sorted_indices, trace) ==
    GenerationSelected(pages, population_size, generations, similar_pairs, tape,
                       Pick(population, sorted_indices), Pick(fitness_scores, sorted_indices),
                       Append(trace, [population |-> population,
                                      fitness_scores |-> fitness_scores,
                                      sorted_indices |-> sorted_indices]))

GenerationSorted(pages, population, population_size, generations, similar_pairs, tape, fitness_scores, trace) ==
    GenerationScored(pages, population, population_size, generations, similar_pairs, tape,
                     fitness_scores,
                     Slice(SortedIndices(fitness_scores, Len(fitness_scores)), population_size),
                     trace)

Generations(pages, population, population_size, generations, similar_pairs, tape, trace) ==
    IF generations <= 0 THEN [ret |-> similar_pairs, tape |-> tape, trace |-> trace]
    ELSE GenerationSorted(pages, population, population_size, generations, similar_pairs,
                          tape, FitnessScores(population), trace)

\* detect_similar_pages of a module built with (population_size, generations);
\* the result, what is left of the draws, and the trace of the passes
detect_similar_pages(pages, population_size, generations, tape) ==
    IF Len(pages) < 2 THEN [ret |-> <<>>, tape |-> tape, trace |-> <<>>]
    ELSE Generations(pages, InitialPopulation(pages, 1, 2), population_size, generations,
                     <<>>, tape, <<>>)

----------------------------------------------------------------------------
(* compute_fuzzy_hash and process_applications.                            *)

\* the application contents used: those of the example, and a second build
\* of application 2
Contents == {"application 1", "application 2", "application 3", "application 2, build 266"}

\* compute_fuzzy_hash: the first 16 hex digits of the MD5 of the content
compute_fuzzy_hash(content) ==
    CASE content = "application 1" -> <<"4", "e", "2", "6", "6", "e", "e", "8", "7", "0", "2", "f", "3", "c", "d", "f">>
      [] content = "application 2" -> <<"5", "c", "d", "7", "b", "0", "4", "3", "8", "6", "d", "9", "1", "8", "d", "6">>
      [] content = "application 3" -> <<"b", "5", "c", "0", "d", "9", "3", "d", "a", "7", "6", "5", "c", "1", "3", "1">>
      [] content = "application 2, build 266" -> <<"4", "d", "b", "6", "5", "e", "2", "b", "4", "9", "2", "e", "f", "4", "d", "8">>

\* the loop of process_applications over app_contents.items()
RECURSIVE HashApplications(_)
HashApplications(app_contents) ==
    IF app_contents = <<>> THEN [fuzzy_hashes |-> <<>>, applications |-> <<>>]
    ELSE LET app_id == Head(app_contents)[1]
             fuzzy_hash == compute_fuzzy_hash(Head(app_contents)[2])
             rest == HashApplications(Tail(app_contents))
         IN [fuzzy_hashes |-> <<<<app_id, fuzzy_hash>>>> \o rest.fuzzy_hashes,
             applications |-> <<Application(app_id, app_id \div 100, <<"App", app_id>>, fuzzy_hash)>>
                              \o rest.applications]

\* the `while merged` loop run to its end
RECURSIVE ClusterLoop(_)
ClusterLoop(f) == IF f.merged THEN ClusterLoop(ClusterPass(f)) ELSE f

cluster_applications(applications) ==
    IF applications = <<>> THEN <<>> ELSE ClusterLoop(ClusterEntry(applications)).clusters

process_applications(app_contents) ==
    LET hashed == HashApplications(app_contents)
    IN [fuzzy_hashes |-> hashed.fuzzy_hashes,
        clusters |-> cluster_applications(hashed.applications)]

----------------------------------------------------------------------------
(* mSMDOrchestrator.  A result dict is a record; {} is EmptyDict.          *)

DictGet(d, key, default) == IF key \in DOMAIN d THEN d[key] ELSE default

\* cluster_pages: the pages of the cluster's applications that app_pages knows
RECURSIVE ClusterPages(_, _)
ClusterPages(app_ids, app_pages) ==
    IF app_ids = <<>> THEN <<>>
    ELSE (IF Head(app_ids) \in Keys(app_pages) THEN Item(app_pages, Head(app_ids)) ELSE <<>>)
         \o ClusterPages(Tail(app_ids), app_pages)

\* step 2 of offline_processing: the loop over clusters.items(); ga_module is
\* GeneticAlgorithmModule() with its defaults
RECURSIVE DetectPerCluster(_, _, _, _)
DetectFound(clusters, app_pages, all_similar_pairs, found) ==
    DetectPerCluster(Tail(clusters), app_pages, all_similar_pairs \o found.ret, found.tape)

DetectCluster(clusters, app_pages, all_similar_pairs, tape, cluster_pages) ==
    IF cluster_pages # <<>>
    THEN DetectFound(clusters, app_pages, all_similar_pairs,
                     detect_similar_pages(cluster_pages, POPULATION_SIZE, GENERATIONS, tape))
    ELSE DetectPerCluster(Tail(clusters), app_pages, all_similar_pairs, tape)

DetectPerCluster(clusters, app_pages, all_similar_pairs, tape) ==
    IF clusters = <<>> THEN [pairs |-> all_similar_pairs, tape |-> tape]
    ELSE DetectCluster(clusters, app_pages, all_similar_pairs, tape,
                       ClusterPages(Head(clusters)[2], app_pages))

\* all_pages: the values of a dict of page lists, joined
RECURSIVE AllPages(_)
AllPages(app_pages) ==
    IF app_pages = <<>> THEN <<>> ELSE Head(app_pages)[2] \o AllPages(Tail(app_pages))

\* the end of offline_processing with the table left as it was constructed:
\* the index is published and the build is lost
OfflinePublishedUnbuilt(o, idxs, hashed, detected, built) ==
    [orch |-> [o EXCEPT !.mspt = Some(Len(idxs) + 1)],
     indexes |-> Append(idxs, NewTable),
     raised |-> built.raised,
     tape |-> detected.tape,
     ret |-> [fuzzy_hashes |-> hashed.fuzzy_hashes,
              application_clusters |-> hashed.clusters,
              num_clusters |-> Len(hashed.clusters),
              similar_page_pairs |-> detected.pairs,
              num_similar_pairs |-> Len(detected.pairs),
              mspt_entries |-> built.ret]]

\* offline_processing on orchestrator o, idxs the heap of tables: self.mspt
\* is bound to the new table before build_table runs.  The operators are the
\* three steps, each given what the steps before it computed.
OfflineBuilt(o, idxs, hashed, detected, built) ==
    [orch |-> [o EXCEPT !.mspt = Some(Len(idxs) + 1)],
     indexes |-> Append(idxs, built.table),
     raised |-> built.raised,
     tape |-> detected.tape,
     ret |-> [fuzzy_hashes |-> hashed.fuzzy_hashes,
              application_clusters |-> hashed.clusters,
              num_clusters |-> Len(hashed.clusters),
              similar_page_pairs |-> detected.pairs,
              num_similar_pairs |-> Len(detected.pairs),
              mspt_entries |-> built.ret]]

OfflineDetected(o, idxs, app_pages, hashed, detected) ==
    OfflineBuilt(o, idxs, hashed, detected,
                 build_table(NewTable, AllPages(app_pages), detected.pairs))

OfflineHashed(o, idxs, app_pages, tape, hashed) ==
    OfflineDetected(o, idxs, app_pages, hashed,
                    DetectPerCluster(hashed.clusters, app_pages, <<>>, tape))

offline_processing(o, idxs, app_contents, app_pages, tape) ==
    OfflineHashed(o, idxs, app_pages, tape, process_applications(app_contents))

\* `if self.mspt is None` without the test
IndexAbsentNever(o) == FALSE

\* `if self.mspt is None`
IndexAbsent(o) == o.mspt = None

\* merge_pages on an engine by reference: self.mspt.get_shareable_pages on an
\* engine whose mspt is None raises AttributeError at the first page
MergeOn(e, idxs, vm_pages) ==
    IF e.mspt = None
    THEN IF Flatten(vm_pages) = <<>>
         THEN [engine |-> e, ret |-> <<0, 0>>, lookups |-> 0, raised |-> FALSE]
         ELSE [engine |-> e, ret |-> <<0, 0>>, lookups |-> 0, raised |-> TRUE]
    ELSE [raised |-> FALSE] @@ merge_pages(e, idxs[e.mspt[1]], vm_pages)

\* the rest of online_processing, the engine bound and merge_pages returned
OnlineMerged(o, engs, merged) ==
    [orch |-> [o EXCEPT !.dedup_engine = Some(Len(engs) + 1)],
     engines |-> Append(engs, merged.engine),
     raised |-> merged.raised,
     lookups |-> merged.lookups,
     ret |-> [pages_merged |-> merged.ret[1],
              memory_saved_bytes |-> merged.ret[2],
              memory_saved_mb |-> Quotient(merged.ret[2], 1024 * 1024),
              statistics |-> get_statistics(merged.engine)]]

\* online_processing merging on the engine the orchestrator already holds
online_processing_reuse(o, idxs, engs, vm_pages) ==
    IF IndexAbsent(o)
    THEN [orch |-> o, engines |-> engs, raised |-> FALSE, lookups |-> 0, ret |-> EmptyDict]
    ELSE OnlineMerged(o, engs,
                      MergeOn(IF o.dedup_engine = None THEN NewEngine(o.mspt)
                              ELSE engs[o.dedup_engine[1]], idxs, vm_pages))

\* online_processing on orchestrator o, engs the heap of engines
online_processing(o, idxs, engs, vm_pages) ==
    IF IndexAbsent(o)
    THEN [orch |-> o, engines |-> engs, raised |-> FALSE, lookups |-> 0, ret |-> EmptyDict]
    ELSE OnlineMerged(o, engs, MergeOn(NewEngine(o.mspt), idxs, vm_pages))

\* self.results of run_complete_pipeline
Results(total_applications, offline_results, online_results) ==
    [offline |-> offline_results,
     online |-> online_results,
     summary |-> [total_applications |-> total_applications,
                  application_clusters |-> DictGet(offline_results, "num_clusters", 0),
                  similar_page_pairs |-> DictGet(offline_results, "num_similar_pairs", 0),
                  mspt_entries |-> DictGet(offline_results, "mspt_entries", 0),
                  memory_saved_mb |-> DictGet(online_results, "memory_saved_mb", 0),
                  pages_merged |-> DictGet(online_results, "pages_merged", 0)]]

\* the end of run_complete_pipeline, both phases having returned
RunCombined(off, on, results) ==
    [orch |-> [on.orch EXCEPT !.results = results], indexes |-> off.indexes,
     engines |-> on.engines, raised |-> FALSE, lookups |-> on.lookups,
     tape |-> off.tape, ret |-> results]

\* run_complete_pipeline after the online phase; an exception leaves it
RunOnline(total_applications, off, on) ==
    IF on.raised
    THEN [orch |-> on.orch, indexes |-> off.indexes, engines |-> on.engines,
          raised |-> TRUE, lookups |-> on.lookups, tape |-> off.tape, ret |-> EmptyDict]
    ELSE RunCombined(off, on, Results(total_applications, off.ret, on.ret))

\* run_complete_pipeline after the offline phase; an exception leaves it
RunOffline(total_applications, engs, vm_pages, off) ==
    IF off.raised
    THEN [orch |-> off.orch, indexes |-> off.indexes, engines |-> engs,
          raised |-> TRUE, lookups |-> 0, tape |-> off.tape, ret |-> EmptyDict]
    ELSE RunOnline(total_applications, off,
                   online_processing(off.orch, off.indexes, engs, vm_pages))

run_complete_pipeline(o, idxs, engs, app_contents, app_pages, vm_pages, tape) ==
    RunOffline(Len(app_contents), engs, vm_pages,
               offline_processing(o, idxs, app_contents, app_pages, tape))

----------------------------------------------------------------------------
(* The state after construction, shared by the specifications below.       *)

\* mSMDOrchestrator.__init__
NewOrchestrator == [mspt |-> None, dedup_engine |-> None, results |-> EmptyDict]

NoCall == [op |-> "none"]
NoHistory == [build |-> 0, merge |-> 0, online |-> 0, offline |-> 0]
IdleFrame == [pc |-> "idle"]

----------------------------------------------------------------------------
(* SpecIndex: one MultilevelSharedPageTable object, built once on           *)
(* construction (as offline_processing does) and then looked up.           *)

PageIds == 1..MaxPageId

\* the page records known to a build: ids 1..k, each with its own digest;
\* a build knows every page id, or every one but the last
KnownPages(k) == [i \in 1..k |-> Page(i, 1, 1, <<"hash", i>>, <<"d">>)]

\* similar_page_pairs: tuples (page_id1, page_id2, similarity)
PairTuples == {<<a, b, 10000>> : a \in PageIds, b \in PageIds}
PairLists == SeqUpTo(PairTuples, MaxPairs)

IndexInit ==
    /\ indexes = <<NewTable>>
    /\ engines = <<>>
    /\ orch = NewOrchestrator
    /\ cl = IdleFrame
    /\ call = NoCall
    /\ hist = NoHistory
    /\ rng = <<>>

\* MultilevelSharedPageTable().build_table(pages, similar_page_pairs): the
\* build of the freshly constructed table object 1
BuildTable ==
    /\ hist.build = 0
    /\ \E k \in (MaxPageId - 1)..MaxPageId, pairs \in PairLists :
          \E r \in {build_table(indexes[1], KnownPages(k), pairs)} :
             /\ indexes' = [indexes EXCEPT ![1] = r.table]
             /\ call' = [op |-> "build_table", ret |-> r.ret, raised |-> r.raised]
             /\ hist' = [hist EXCEPT !.build = 1] @@
                            [known |-> 1..k, pairs |-> pairs, raised |-> r.raised]
    /\ UNCHANGED <<engines, orch, cl, rng>>

\* table.lookup(page_id) on the table object 1
Lookup ==
    /\ \E page_id \in 0..MaxPageId :
          call' = [op |-> "lookup", page_id |-> page_id,
                   ret |-> lookup(indexes[1], page_id)]
    /\ UNCHANGED <<indexes, engines, orch, cl, hist, rng>>

IndexNext == BuildTable \/ Lookup

SpecIndex == IndexInit /\ [][IndexNext]_vars

----------------------------------------------------------------------------
(* Properties of the built table.                                          *)

Entries(t) == {t.table[id] : id \in DOMAIN t.table}
SimilarSet(e) == {e.similar_pages[i] : i \in 1..Len(e.similar_pages)}
Members(e) == {e.primary_page_id} \cup SimilarSet(e)
Covered(t) == UNION {Members(e) : e \in Entries(t)}
Built == hist.build = 1
PairIdSet(pair) == {pair[1], pair[2]}

\* C1: after build_table on a fresh table, lookup of an entry's primary page
\* id and of each of its similar page ids returns that entry, and lookup of
\* a page id that is in no entry returns None.
C1_LookupConsistent ==
    Built =>
        LET t == indexes[1]
        IN /\ \A e \in Entries(t) :
                 \A p \in Members(e) : lookup(t, p) = Some(e)
           /\ \A p \in 0..(MaxPageId + 1) :
                 p \notin Covered(t) => lookup(t, p) = None

\* a build that created an entry, left a known page out of every entry and
\* was given a pair with an unknown page id
C1_Witness ==
    /\ Built
    /\ Entries(indexes[1]) # {}
    /\ \E p \in hist.known : p \notin Covered(indexes[1])
    /\ \E i \in 1..Len(hist.pairs) : hist.pairs[i][2] \notin hist.known

\* C2: after build_table on a fresh table no page id is in more than one
\* entry (as primary or similar member), and no entry lists its own
\* primary page id among its similar pages.
C2_OneEntryPerPage ==
    Built =>
        LET t == indexes[1]
        IN /\ \A e1 \in Entries(t), e2 \in Entries(t) :
                 e1 # e2 => Members(e1) \cap Members(e2) = {}
           /\ \A e \in Entries(t) :
                 /\ e.primary_page_id \notin SimilarSet(e)
                 /\ Cardinality(SimilarSet(e)) = Len(e.similar_pages)

\* a build given two pairs of known, distinct page ids where the second
\* pair starts with the page id the first pair ends with
C2_Witness ==
    /\ Built
    /\ Len(hist.pairs) = 2
    /\ PairIdSet(hist.pairs[1]) \cup PairIdSet(hist.pairs[2]) \subseteq hist.known
    /\ hist.pairs[1][2] = hist.pairs[2][1]
    /\ hist.pairs[1][1] # hist.pairs[1][2]
    /\ hist.pairs[2][1] # hist.pairs[2][2]
    /\ Cardinality(Entries(indexes[1])) = 1

\* the indices, among the first n pairs, of the pairs consumed: a pair is
\* consumed when it shares no page id with a pair consumed before it
RECURSIVE ConsumedUpTo(_, _)
ConsumedUpTo(pairs, n) ==
    IF n = 0 THEN {}
    ELSE LET before == ConsumedUpTo(pairs, n - 1)
             claimed == UNION {PairIdSet(pairs[i]) : i \in before}
         IN IF PairIdSet(pairs[n]) \cap claimed = {} THEN before \cup {n} ELSE before

\* C18: build_table scans the pairs in input order and consumes a pair if
\* and only if neither of its page ids was claimed by a pair consumed earlier
\* in the call: the groups are, in order, the consumed pairs, each under its
\* first page id; a pair that shares a page id with a consumed pair adds
\* nothing to any group, so no group and no entry ever joins more than the
\* two page ids of one pair.
C18_PairsConsumedInOrder ==
    Built =>
        LET pairs == hist.pairs
            consumed == SetToSeq(ConsumedUpTo(pairs, Len(pairs)))
            grouped == GroupPairs(pairs, 1, <<>>, {})
        IN /\ grouped[1] = [k \in 1..Len(consumed) |->
                               <<pairs[consumed[k]][1], PairIdSet(pairs[consumed[k]])>>]
           /\ grouped[2] = UNION {PairIdSet(pairs[consumed[k]]) : k \in 1..Len(consumed)}
           /\ \A e \in Entries(indexes[1]) :
                 \E k \in 1..Len(consumed) :
                    /\ e.primary_page_id = pairs[consumed[k]][1]
                    /\ Members(e) = PairIdSet(pairs[consumed[k]])
           /\ \A k \in 1..Len(consumed) :
                 LET pair == pairs[consumed[k]]
                 IN (PairIdSet(pair) \subseteq hist.known /\ pair[1] # pair[2]) =>
                        \E e \in Entries(indexes[1]) :
                            e.primary_page_id = pair[1] /\ SimilarSet(e) = {pair[2]}

\* a build given the pairs (a, b) and (c, a) of known page ids: the second
\* pair ends with the page id the first pair starts with and is not consumed
C18_Witness ==
    /\ Built
    /\ Len(hist.pairs) = 2
    /\ PairIdSet(hist.pairs[1]) \cup PairIdSet(hist.pairs[2]) \subseteq hist.known
    /\ hist.pairs[2][2] = hist.pairs[1][1]
    /\ Cardinality(PairIdSet(hist.pairs[1]) \cup PairIdSet(hist.pairs[2])) = 3
    /\ ConsumedUpTo(hist.pairs, 2) = {1}
    /\ Covered(indexes[1]) = PairIdSet(hist.pairs[1])

\* C26: every entry build_table creates has exactly one similar page: it is
\* the primary = first id, similar = [second id] of one consumed pair, no
\* group holds more than the two ids of its pair, and there are no more
\* entries than consumed pairs.
C26_OneSimilarPage ==
    Built =>
        LET pairs == hist.pairs
            consumed == ConsumedUpTo(pairs, Len(pairs))
            groups == GroupPairs(pairs, 1, <<>>, {})[1]
        IN /\ \A e \in Entries(indexes[1]) :
                 /\ Len(e.similar_pages) = 1
                 /\ \E i \in consumed : /\ e.primary_page_id = pairs[i][1]
                                         /\ e.similar_pages = <<pairs[i][2]>>
           /\ \A k \in 1..Len(groups) : Cardinality(groups[k][2]) <= 2
           /\ Cardinality(Entries(indexes[1])) <= Cardinality(consumed)
           /\ indexes[1].entry_counter = Cardinality(Entries(indexes[1]))

\* a build that consumed two pairs and made an entry of one of them only
C26_Witness ==
    /\ Built
    /\ Len(hist.pairs) = 2
    /\ ConsumedUpTo(hist.pairs, 2) = {1, 2}
    /\ Cardinality(Entries(indexes[1])) = 1
    /\ \A e \in Entries(indexes[1]) : Len(e.similar_pages) = 1

\* pair i of the build has its entry in the table
HasEntry(i) ==
    \E e \in Entries(indexes[1]) :
        e.primary_page_id = hist.pairs[i][1] /\ e.similar_pages = <<hist.pairs[i][2]>>

\* the page ids of the pairs before pair i that have their entry
ClaimedByEntries(i) == UNION {PairIdSet(hist.pairs[j]) : j \in {k \in 1..(i - 1) : HasEntry(k)}}

\* C30: a pair that gives no entry (an id outside the known page set, or two
\* equal ids) claims no page id: every pair of two different known pages that
\* no entry-producing pair before it has claimed has its entry.
C30_EntrylessPairClaimsNothing ==
    Built =>
        \A i \in 1..Len(hist.pairs) :
            (/\ PairIdSet(hist.pairs[i]) \subseteq hist.known
             /\ hist.pairs[i][1] # hist.pairs[i][2]
             /\ PairIdSet(hist.pairs[i]) \cap ClaimedByEntries(i) = {}) => HasEntry(i)

\* C10: build_table does not raise when a pair mentions a page id outside
\* the known page set; the pair gives no entry, and every entry's primary
\* and similar page ids are known page ids.
C10_UnknownPageSkipped ==
    Built =>
        /\ ~hist.raised
        /\ \A e \in Entries(indexes[1]) :
              /\ Members(e) \subseteq hist.known
              /\ \E i \in 1..Len(hist.pairs) :
                    /\ hist.pairs[i][1] = e.primary_page_id
                    /\ e.similar_pages = <<hist.pairs[i][2]>>
        /\ Cardinality(Entries(indexes[1])) <=
              Cardinality({i \in 1..Len(hist.pairs) :
                              PairIdSet(hist.pairs[i]) \subseteq hist.known})

\* a build given a pair of a known and an unknown page id, in both orders
C10_Witness ==
    /\ Built
    /\ \E i \in 1..Len(hist.pairs) :
          hist.pairs[i][1] \in hist.known /\ hist.pairs[i][2] \notin hist.known
    /\ \E i \in 1..Len(hist.pairs) :
          hist.pairs[i][1] \notin hist.known /\ hist.pairs[i][2] \in hist.known

----------------------------------------------------------------------------
(* SpecEngine: one MemoryDeduplicationEngine bound to a built table.       *)

VmPageIds == 1..MaxVmPageId

\* a page of VM vm; the pages of VM 2 are twice the default size
VmPage(vm, page_id) ==
    [Page(page_id, vm, 1, <<"hash", page_id>>, <<"d">>) EXCEPT !.size = vm * PAGE_SIZE]

VmPageLists(vm, n) ==
    {[i \in 1..Len(ids) |-> VmPage(vm, ids[i])] : ids \in SeqUpTo(VmPageIds, n)}

\* vm_pages: {1: [...], 2: [...]} with at most MaxVmPages pages in all
VmInputs ==
    UNION {{<<<<1, s1>>, <<2, s2>>>> : s2 \in VmPageLists(2, MaxVmPages - Len(s1))} :
              s1 \in VmPageLists(1, MaxVmPages)}

\* the tables build_table makes of the pages 1..MaxVmPageId
BuiltTables ==
    {build_table(NewTable, KnownPages(MaxVmPageId), pairs).table :
        pairs \in SeqUpTo({<<a, b, 10000>> : a \in VmPageIds, b \in VmPageIds}, MaxPairs)}

EngineHistory ==
    [merge |-> 0, sum_merged |-> 0, sum_saved |-> 0, last_vm |-> None, last_ret |-> None]
        @@ NoHistory

\* a built table and MemoryDeduplicationEngine(table)
EngineInit ==
    /\ indexes \in {<<t>> : t \in BuiltTables}
    /\ engines = <<NewEngine(Some(1))>>
    /\ orch = NewOrchestrator
    /\ cl = IdleFrame
    /\ call = NoCall
    /\ hist = EngineHistory
    /\ rng = <<>>

\* engine.merge_pages(vm_pages) on the engine object 1
MergePages ==
    /\ hist.merge < MaxMerges
    /\ \E vm_pages \in VmInputs :
          \E r \in {merge_pages(engines[1], indexes[engines[1].mspt[1]], vm_pages)} :
             /\ engines' = [engines EXCEPT ![1] = r.engine]
             /\ call' = [op |-> "merge_pages", ret |-> r.ret]
             /\ hist' = [hist EXCEPT !.merge = @ + 1,
                                      !.sum_merged = @ + r.ret[1],
                                      !.sum_saved = @ + r.ret[2],
                                      !.last_vm = Some(vm_pages),
                                      !.last_ret = Some(r.ret)]
    /\ UNCHANGED <<indexes, orch, cl, rng>>

\* engine.get_statistics() on the engine object 1
GetStatistics ==
    /\ call' = [op |-> "get_statistics", ret |-> get_statistics(engines[1])]
    /\ UNCHANGED <<indexes, engines, orch, cl, hist, rng>>

EngineNext == MergePages \/ GetStatistics

SpecEngine == EngineInit /\ [][EngineNext]_vars

----------------------------------------------------------------------------
(* Properties of merge_pages.                                              *)

\* C4: a merge_pages call given the vm_pages of the call before it on the
\* same engine returns the same (pages_merged, memory_saved), and when it is
\* the second call on the engine the cumulative dedup_count and
\* total_memory_saved become exactly twice what they were after the first.
C4_RepeatedMergeDoubles ==
    [][(hist'.merge = hist.merge + 1 /\ hist'.last_vm = hist.last_vm) =>
          /\ hist'.last_ret = hist.last_ret
          /\ hist.merge = 1 =>
                /\ engines'[1].dedup_count = 2 * engines[1].dedup_count
                /\ engines'[1].total_memory_saved = 2 * engines[1].total_memory_saved]_vars

\* a second call with the first call's vm_pages that merged something
C4_Witness ==
    /\ hist.merge = 2
    /\ hist.sum_merged = 2 * hist.last_ret[1][1]
    /\ hist.last_ret[1][1] > 0
    /\ engines[1].dedup_count = hist.sum_merged

\* C5: the cumulative counters never decrease, and after each merge_pages
\* they are the sums of the values returned by the merge_pages calls so far.
C5_CountersAccumulate ==
    /\ [](/\ engines[1].dedup_count = hist.sum_merged
          /\ engines[1].total_memory_saved = hist.sum_saved)
    /\ [][/\ engines'[1].dedup_count >= engines[1].dedup_count
          /\ engines'[1].total_memory_saved >= engines[1].total_memory_saved]_vars

\* two calls that both merged, with different returned byte counts
C5_Witness ==
    /\ hist.merge = 2
    /\ hist.last_ret[1][1] > 0
    /\ hist.sum_merged > hist.last_ret[1][1]
    /\ hist.sum_saved # 2 * hist.last_ret[1][2]
    /\ call.op = "get_statistics"

\* the pair keys a merge_pages call over all_pages reaches
ReachedKeys(t, all_pages, i) ==
    LET page == all_pages[i][2]
        shareable == get_shareable_pages(t, page.page_id)
    IN {PairKey(page.page_id, shareable[j]) : j \in 1..Len(shareable)}
AllKeys(t, all_pages) == UNION {ReachedKeys(t, all_pages, i) : i \in 1..Len(all_pages)}
FirstReach(t, all_pages, key) ==
    CHOOSE i \in 1..Len(all_pages) :
        /\ key \in ReachedKeys(t, all_pages, i)
        /\ \A j \in 1..(i - 1) : key \notin ReachedKeys(t, all_pages, j)
RECURSIVE SizeOfFirstReach(_, _, _)
SizeOfFirstReach(t, all_pages, keys) ==
    IF keys = {} THEN 0
    ELSE LET key == CHOOSE k \in keys : TRUE
         IN all_pages[FirstReach(t, all_pages, key)][2].size
                + SizeOfFirstReach(t, all_pages, keys \ {key})

\* C6: the pages_merged a merge_pages call returns is the number of distinct
\* unordered keys {p.page_id, q}, p a page of the flattened input and q in
\* get_shareable_pages(p.page_id), and the memory_saved it returns is the sum
\* over these keys of the size of the first page that reached the key.
C6_MergeCountsDistinctKeys ==
    hist.merge > 0 =>
        LET t == indexes[engines[1].mspt[1]]
            all_pages == Flatten(hist.last_vm[1])
            keys == AllKeys(t, all_pages)
        IN /\ hist.last_ret[1][1] = Cardinality(keys)
           /\ hist.last_ret[1][2] = SizeOfFirstReach(t, all_pages, keys)

\* a call given the same page id in both VMs, the larger page first in
\* neither, that counted one key
C6_Witness ==
    /\ hist.merge > 0
    /\ LET all_pages == Flatten(hist.last_vm[1])
       IN /\ Len(all_pages) = 2
          /\ all_pages[1][1] # all_pages[2][1]
          /\ all_pages[1][2].page_id = all_pages[2][2].page_id
    /\ hist.last_ret[1] = <<1, PAGE_SIZE>>

\* the step is a call of get_statistics
StatisticsStep == call'.op = "get_statistics"

\* C16: get_statistics is a pure read: it changes neither the cumulative
\* counters nor the index; it reports the current cumulative pages merged and
\* bytes saved, which are the sums of what the merge_pages calls returned;
\* and its average is 0 whenever the cumulative pages merged is 0.
C16_StatisticsPureRead ==
    [][StatisticsStep =>
          /\ engines' = engines
          /\ indexes' = indexes
          /\ call'.ret.total_pages_merged = engines[1].dedup_count
          /\ call'.ret.total_pages_merged = hist.sum_merged
          /\ call'.ret.total_memory_saved_bytes = engines[1].total_memory_saved
          /\ call'.ret.total_memory_saved_bytes = hist.sum_saved
          /\ (engines[1].dedup_count = 0 =>
                 call'.ret.average_page_savings = Quotient(0, 1))]_vars

\* statistics have been read from an engine whose merge_pages calls merged
\* nothing
C16_Witness ==
    /\ call.op = "get_statistics"
    /\ hist.merge > 0
    /\ call.ret.total_pages_merged = 0
    /\ call.ret.average_page_savings = Quotient(0, 1)

----------------------------------------------------------------------------
(* SpecReaders: a built table and an engine bound to it, read by lookup,   *)
(* get_shareable_pages, merge_pages and get_statistics in any order.       *)

\* vm_pages: {1: [...]} with at most MaxVmPages pages
ReaderVmInputs == {<<<<1, s1>>>> : s1 \in VmPageLists(1, MaxVmPages)}

ReaderInit ==
    /\ indexes \in {<<t>> : t \in BuiltTables}
    /\ engines = <<NewEngine(Some(1))>>
    /\ orch = NewOrchestrator
    /\ cl = IdleFrame
    /\ call = NoCall
    /\ hist = NoHistory
    /\ rng = <<>>

\* a get_shareable_pages that takes the page out of page_to_entry
GetShareablePagesPop ==
    /\ \E page_id \in 0..MaxVmPageId :
          /\ call' = [op |-> "get_shareable_pages", page_id |-> page_id,
                      ret |-> get_shareable_pages(indexes[1], page_id)]
          /\ indexes' = [indexes EXCEPT ![1].page_to_entry =
                            [k \in DOMAIN @ \ {page_id} |-> @[k]]]
    /\ UNCHANGED <<engines, orch, cl, hist, rng>>

\* table.get_shareable_pages(page_id) on the table object 1
GetShareablePages ==
    /\ \E page_id \in 0..MaxVmPageId :
          call' = [op |-> "get_shareable_pages", page_id |-> page_id,
                   ret |-> get_shareable_pages(indexes[1], page_id)]
    /\ UNCHANGED <<indexes, engines, orch, cl, hist, rng>>

\* engine.merge_pages(vm_pages) on the engine object 1
ReaderMerge ==
    /\ hist.merge < MaxMerges
    /\ \E vm_pages \in ReaderVmInputs :
          \E r \in {merge_pages(engines[1], indexes[engines[1].mspt[1]], vm_pages)} :
             /\ engines' = [engines EXCEPT ![1] = r.engine]
             /\ call' = [op |-> "merge_pages", vm_pages |-> vm_pages, ret |-> r.ret]
             /\ hist' = [hist EXCEPT !.merge = @ + 1]
    /\ UNCHANGED <<indexes, orch, cl, rng>>

ReaderNext == Lookup \/ GetShareablePages \/ ReaderMerge \/ GetStatistics

SpecReaders == ReaderInit /\ [][ReaderNext]_vars

\* C23: once build_table has returned, no lookup, get_shareable_pages,
\* merge_pages or get_statistics call changes the index: its entries (primary,
\* similar list, signature, cluster id), its page-to-entry map and its entry
\* counter stay as built.
C23_IndexImmutable ==
    [][/\ indexes'[1].table = indexes[1].table
       /\ indexes'[1].page_to_entry = indexes[1].page_to_entry
       /\ indexes'[1].entry_counter = indexes[1].entry_counter
       /\ Len(indexes') = 1]_vars

\* a merge has counted pages of an index with entries, and a page of an
\* entry has then been asked for its shareable pages
C23_Witness ==
    /\ call.op = "get_shareable_pages"
    /\ call.ret # <<>>
    /\ hist.merge > 0
    /\ engines[1].dedup_count > 0

\* C24: for every page id p the index covers, as primary or as similar
\* member, get_shareable_pages(p) does not contain p itself, so merge_pages
\* never counts a pair of a page with itself.
C24_NoSelfPair ==
    (call.op = "get_shareable_pages" /\ call.page_id \in Covered(indexes[1])) =>
        \A i \in 1..Len(call.ret) : call.ret[i] # call.page_id

\* the page ids of the snapshot given to the last merge_pages
SnapshotIds ==
    {Flatten(call.vm_pages)[i][2].page_id : i \in 1..Len(Flatten(call.vm_pages))}

\* the pair keys of a snapshot page and a shareable page of it that is in
\* the snapshot as well
PresentKeys ==
    UNION {{PairKey(p, q) :
               q \in SnapshotIds \cap
                     SimilarSet([similar_pages |-> get_shareable_pages(indexes[1], p)])} :
              p \in SnapshotIds}

\* C28: merge_pages counts a pair {p, q} only when both page ids are in the
\* vm_pages given to the call: it counts the pairs that are present, and a
\* page whose index partner is not in the snapshot adds no merge and no
\* bytes.
C28_BothPagesPresent ==
    call.op = "merge_pages" =>
        /\ call.ret[1] = Cardinality(PresentKeys)
        /\ (PresentKeys = {} => call.ret[2] = 0)

----------------------------------------------------------------------------
(* SpecCluster: one call of FuzzyHashingModule.cluster_applications.       *)

\* a 16 character digest: k times "a", then the character c
Digest(k, c) == [i \in 1..HASH_LENGTH |-> IF i <= k THEN "a" ELSE c]

\* a 10 character digest of the same shape
ShortDigest(k, c) == [i \in 1..10 |-> IF i <= k THEN "a" ELSE c]

\* similarities 50 (a^16 and a^8b^8, a^8b^8 and b^16), 31.25 (a^5c^11 with
\* a^16 and with a^8b^8), 25 (a^4d^12 with the first two), 0, and exactly 30
\* (a^10 and a^3b^7)
Digests ==
    {Digest(16, "a"), Digest(8, "b"), Digest(0, "b"), Digest(5, "c"), Digest(4, "d"),
     ShortDigest(10, "a"), ShortDigest(3, "b")}

\* the ids of n applications: 1..n, or with the id 1 given twice
AppIdLists(n) ==
    {[i \in 1..n |-> i]} \cup {[i \in 1..n |-> IF i = d THEN 1 ELSE i] : d \in 2..n}

\* the lists of n applications given to cluster_applications
ApplicationLists(n) ==
    {[i \in 1..n |-> Application(ids[i], 0, "App", hashes[i])] :
        ids \in AppIdLists(n), hashes \in [1..n -> Digests]}

ClusterInit ==
    /\ indexes = <<>>
    /\ engines = <<>>
    /\ orch = NewOrchestrator
    /\ cl = IdleFrame
    /\ call = NoCall
    /\ hist = NoHistory
    /\ rng = <<>>

\* cluster_applications(applications) up to the loop
ClusterCall ==
    /\ cl.pc = "idle"
    /\ \E n \in 0..MaxApps : \E applications \in ApplicationLists(n) :
          cl' = ClusterEntry(applications)
    /\ UNCHANGED <<indexes, engines, orch, call, hist, rng>>

\* one iteration of `while merged`
ClusterIterate ==
    /\ cl.pc = "loop"
    /\ cl.merged
    /\ cl' = ClusterPass(cl)
    /\ UNCHANGED <<indexes, engines, orch, call, hist, rng>>

\* the loop is left and the clusters are returned
ClusterReturn ==
    /\ cl.pc = "loop"
    /\ ~cl.merged
    /\ cl' = [cl EXCEPT !.pc = "done"] @@ [ret |-> cl.clusters]
    /\ call' = [op |-> "cluster_applications", ret |-> cl.clusters]
    /\ UNCHANGED <<indexes, engines, orch, hist, rng>>

ClusterNext == ClusterCall \/ ClusterIterate \/ ClusterReturn

SpecCluster == ClusterInit /\ [][ClusterNext]_vars

\* digests of similarity 100 (a^16 and a^10), 56.25 (a^16 with a^3b^7) and
\* exactly 30 (a^10 and a^3b^7, either way, and a^3b^7 with a^16)
FairDigests == {Digest(16, "a"), ShortDigest(10, "a"), ShortDigest(3, "b")}

\* the ids 1..n, or with the id 1 given to the second application too
FairIdLists(n) == {[i \in 1..n |-> i], [i \in 1..n |-> IF i = 2 THEN 1 ELSE i]}

FairApplicationLists(n) ==
    {[i \in 1..n |-> Application(ids[i], 0, "App", hashes[i])] :
        ids \in FairIdLists(n), hashes \in [1..n -> FairDigests]}

\* a call that has reached `while merged`, and its run to the return: a loop
\* iteration or the return that is enabled is taken
ClusterEntered ==
    /\ indexes = <<>>
    /\ engines = <<>>
    /\ orch = NewOrchestrator
    /\ \E n \in 0..MaxApps : \E applications \in FairApplicationLists(n) :
          cl = ClusterEntry(applications)
    /\ call = NoCall
    /\ hist = NoHistory
    /\ rng = <<>>

ClusterRun == ClusterIterate \/ ClusterReturn

SpecClusterFair ==
    ClusterEntered /\ [][ClusterRun]_vars /\ WF_vars(ClusterIterate) /\ WF_vars(ClusterReturn)

----------------------------------------------------------------------------
(* Properties of cluster_applications.                                     *)

AppIds(applications) == {applications[i].app_id : i \in 1..Len(applications)}
DistinctIds(applications) == Cardinality(AppIds(applications)) = Len(applications)
MemberSet(cluster) == {cluster[2][i] : i \in 1..Len(cluster[2])}
SameCluster(clusters, a, b) ==
    \E i \in 1..Len(clusters) : {a, b} \subseteq MemberSet(clusters[i])

\* C7: when cluster_applications returns, given applications of distinct
\* ids, no two applications that are in different returned clusters have a
\* similarity above 30 in the similarity matrix.
C7_ClusteringClosed ==
    (cl.pc = "done" /\ DistinctIds(cl.applications) /\ cl.applications # <<>>) =>
        \A i \in 1..Len(cl.similarity_matrix) :
            LET item == cl.similarity_matrix[i]
            IN ~SameCluster(cl.ret, item[1][1], item[1][2]) =>
                   item[2] <= SIMILARITY_THRESHOLD * 100

\* a call that merged and returned two clusters, two applications in
\* different clusters having similarity 25
C7_Witness ==
    /\ cl.pc = "done"
    /\ cl.applications # <<>>
    /\ DistinctIds(cl.applications)
    /\ Len(cl.merges) = 1
    /\ Len(cl.ret) = 2
    /\ \E i \in 1..Len(cl.similarity_matrix) :
          /\ cl.similarity_matrix[i][2] = 2500
          /\ ~SameCluster(cl.ret, cl.similarity_matrix[i][1][1], cl.similarity_matrix[i][1][2])

\* C17: when cluster_applications has returned, every input Application's
\* cluster_id is no longer -1 but the id of the returned cluster that holds
\* its app_id.
C17_ClusterIdAssigned ==
    (cl.pc = "done" /\ DistinctIds(cl.applications)) =>
        \A i \in 1..Len(cl.applications) :
            \E k \in 1..Len(cl.ret) :
                /\ cl.applications[i].app_id \in MemberSet(cl.ret[k])
                /\ cl.applications[i].cluster_id = cl.ret[k][1]

\* the step is one iteration of `while merged`
IterateStep == cl.pc = "loop" /\ cl'.pc = "loop"

\* the pairs (i, j), i < j, of places in the input list, and their order
AppPairs(f) == {p \in (1..Len(f.applications)) \X (1..Len(f.applications)) : p[1] < p[2]}
Before(p, q) == p[1] < q[1] \/ (p[1] = q[1] /\ p[2] < q[2])
PairSimilarity(f, p) ==
    calculate_similarity(f.applications[p[1]].fuzzy_hash, f.applications[p[2]].fuzzy_hash)

\* the current cluster, in frame f, of the application at place i
ClusterOf(f, i) ==
    CHOOSE k \in 1..Len(f.clusters) : f.applications[i].app_id \in MemberSet(f.clusters[k])

\* the cross-cluster pairs whose similarity strictly exceeds the threshold
Candidates(f) ==
    {p \in AppPairs(f) : /\ PairSimilarity(f, p) > SIMILARITY_THRESHOLD * 100
                         /\ ClusterOf(f, p[1]) # ClusterOf(f, p[2])}

\* the candidate of highest similarity, the first in pair order among equals
Chosen(f) ==
    CHOOSE p \in Candidates(f) :
        \A q \in Candidates(f) :
            \/ p = q
            \/ PairSimilarity(f, p) > PairSimilarity(f, q)
            \/ PairSimilarity(f, p) = PairSimilarity(f, q) /\ Before(p, q)

ClusterSet(f) == {<<f.clusters[k][1], MemberSet(f.clusters[k])>> : k \in 1..Len(f.clusters)}

C22_ClusterTerminates ==
    /\ [][(IterateStep /\ cl'.merged) => Len(cl'.clusters) = Len(cl.clusters) - 1]_vars
    /\ [](cl.pc = "loop" =>
             /\ Len(cl.clusters) = Len(cl.applications) - Len(cl.merges)
             /\ Len(cl.merges) <= Len(cl.applications) - 1)
    /\ (cl.pc = "loop" ~> cl.pc = "done")

\* a call on three applications that returned after two merges
C22_Witness ==
    /\ cl.pc = "done"
    /\ Len(cl.applications) = 3
    /\ Len(cl.merges) = 2
    /\ Len(cl.ret) = 1

\* the graph of the call: two application ids are linked when their pair has
\* a similarity above the threshold in the similarity matrix
Linked(a, b) ==
    \E i \in 1..Len(cl.similarity_matrix) :
        /\ {cl.similarity_matrix[i][1][1], cl.similarity_matrix[i][1][2]} = {a, b}
        /\ cl.similarity_matrix[i][2] > SIMILARITY_THRESHOLD * 100

\* the ids reached from the set S by chains of at most k links
RECURSIVE Reached(_, _)
Reached(S, k) ==
    IF k = 0 THEN S
    ELSE Reached(S \cup {b \in AppIds(cl.applications) : \E a \in S : Linked(a, b)}, k - 1)

Component(a) == Reached({a}, Len(cl.applications))

----------------------------------------------------------------------------
(* SpecPipeline: one mSMDOrchestrator, on which offline_processing,        *)
(* online_processing and run_complete_pipeline are called in any order.    *)

Dump1 == <<"d", "u", "m", "p", "1">>
Dump3 == <<"d", "u", "m", "p", "3">>

\* the example's app_contents, app_pages and vm_pages
FixtureContents ==
    <<<<1, "application 1">>, <<2, "application 2">>, <<3, "application 3">>>>
FixtureAppPages ==
    <<<<1, <<Page(1, 1, 1, "hash1", Dump1), Page(2, 1, 1, "hash2", Dump1)>>>>,
      <<2, <<Page(3, 1, 2, "hash3", Dump1), Page(4, 1, 2, "hash1", Dump1)>>>>,
      <<3, <<Page(5, 1, 3, "hash5", Dump3), Page(6, 1, 3, "hash6", Dump3)>>>>>>
FixtureVmPages ==
    <<<<1, <<Page(1, 1, 1, "hash1", Dump1), Page(3, 1, 2, "hash3", Dump1)>>>>,
      <<2, <<Page(2, 1, 1, "hash2", Dump1), Page(4, 1, 2, "hash1", Dump1)>>>>>>

\* the example with the second build of application 2, whose digest is
\* 31.25 percent similar to that of application 1
ClusteredContents ==
    <<<<1, "application 1">>, <<2, "application 2, build 266">>, <<3, "application 3">>>>

\* the arguments of offline_processing: <<app_contents, app_pages>>
OfflineInputs ==
    {<<<<>>, <<>>>>, <<<<>>, FixtureAppPages>>, <<FixtureContents, <<>>>>,
     <<FixtureContents, FixtureAppPages>>, <<ClusteredContents, FixtureAppPages>>}

\* the arguments of online_processing
VmPageInputs == {<<>>, FixtureVmPages}

\* the arguments of run_complete_pipeline: <<app_contents, app_pages, vm_pages>>
RunInputs ==
    {<<<<>>, <<>>, <<>>>>, <<<<>>, FixtureAppPages, FixtureVmPages>>,
     <<<<>>, <<>>, FixtureVmPages>>, <<<<>>, FixtureAppPages, <<>>>>,
     <<FixtureContents, FixtureAppPages, FixtureVmPages>>,
     <<ClusteredContents, FixtureAppPages, FixtureVmPages>>}

\* what `random` may hand out in one iteration of the mutation loop: no
\* mutation, or the three randint results
Draws == {NoMutation, <<0, 0, 0>>, <<1, 0, 0>>}
Tapes == SeqUpTo(Draws, MaxDraws)

\* builds: for each table of the heap, the <<app_pages, similar pairs>> of the
\* offline phase that built it
PipelineHistory ==
    [last_contents |-> None, last_app_pages |-> None, builds |-> <<>>] @@ NoHistory

PipelineInit ==
    /\ indexes = <<>>
    /\ engines = <<>>
    /\ orch = NewOrchestrator
    /\ cl = IdleFrame
    /\ call = NoCall
    /\ hist = PipelineHistory
    /\ rng \in Tapes

Offline ==
    /\ hist.offline < MaxOffline
    /\ \E args \in OfflineInputs :
          \E r \in {offline_processing(orch, indexes, args[1], args[2], rng)} :
             /\ orch' = r.orch
             /\ indexes' = r.indexes
             /\ rng' = r.tape
             /\ call' = [op |-> "offline_processing", ret |-> r.ret, raised |-> r.raised,
                         lookups |-> 0]
             /\ hist' = [hist EXCEPT !.offline = @ + 1,
                                     !.last_contents = Some(args[1]),
                                     !.last_app_pages = Some(args[2]),
                                     !.builds = IF r.raised THEN @
                                                ELSE Append(@, <<args[2], r.ret.similar_page_pairs>>)]
    /\ UNCHANGED <<engines, cl>>

Online ==
    /\ hist.online < MaxOnline
    /\ \E vm_pages \in VmPageInputs :
          \E r \in {online_processing(orch, indexes, engines, vm_pages)} :
             /\ orch' = r.orch
             /\ engines' = r.engines
             /\ call' = [op |-> "online_processing", vm_pages |-> vm_pages, ret |-> r.ret,
                         raised |-> r.raised, lookups |-> r.lookups]
             /\ hist' = [hist EXCEPT !.online = @ + 1]
    /\ UNCHANGED <<indexes, cl, rng>>

RunPipeline ==
    /\ hist.offline < MaxOffline
    /\ hist.online < MaxOnline
    /\ \E args \in RunInputs :
          \E r \in {run_complete_pipeline(orch, indexes, engines, args[1], args[2], args[3],
                                          rng)} :
             /\ orch' = r.orch
             /\ indexes' = r.indexes
             /\ engines' = r.engines
             /\ rng' = r.tape
             /\ call' = [op |-> "run_complete_pipeline", vm_pages |-> args[3],
                         ret |-> r.ret, raised |-> r.raised, lookups |-> r.lookups]
             /\ hist' = [hist EXCEPT !.offline = @ + 1, !.online = @ + 1,
                                     !.last_contents = Some(args[1]),
                                     !.last_app_pages = Some(args[2]),
                                     !.builds = IF r.raised THEN @
                                                ELSE Append(@, <<args[2],
                                                                 r.ret.offline.similar_page_pairs>>)]
    /\ UNCHANGED cl

PipelineNext == Offline \/ Online \/ RunPipeline

SpecPipeline == PipelineInit /\ [][PipelineNext]_vars

----------------------------------------------------------------------------
(* Properties of the orchestrator.                                         *)

\* the step is a call of online_processing
OnlineStep == call'.op = "online_processing" /\ hist'.online = hist.online + 1

\* the last offline phase was given the example's pages and one of the two
\* content sets, and the last call merged the example's VM snapshots
FixtureOnline ==
    /\ call.op \in {"online_processing", "run_complete_pipeline"}
    /\ ~call.raised
    /\ call.vm_pages = FixtureVmPages
    /\ hist.last_app_pages = Some(FixtureAppPages)
    /\ hist.last_contents \in {Some(FixtureContents), Some(ClusteredContents)}

\* the result of the online phase of the last call
LastOnline == IF call.op = "run_complete_pipeline" THEN call.ret.online ELSE call.ret

\* applications 1 and 2 are in one cluster of the index's offline phase
Clustered12 == hist.last_contents = Some(ClusteredContents)

\* C9: a call of online_processing on an orchestrator that has no index
\* returns the empty result without raising, creates no engine, makes no
\* index lookup and leaves the orchestrator (index absent, engine absent)
\* as it was.
C9_OnlineBeforeOffline ==
    [][(OnlineStep /\ orch.mspt = None) =>
          /\ call'.ret = EmptyDict
          /\ ~call'.raised
          /\ call'.lookups = 0
          /\ engines' = engines
          /\ indexes' = indexes
          /\ orch' = orch
          /\ orch'.mspt = None /\ orch'.dedup_engine = None]_vars

\* online_processing has returned for VM pages that are not empty, on an
\* orchestrator that never ran the offline phase
C9_Witness ==
    /\ call.op = "online_processing"
    /\ call.vm_pages # <<>>
    /\ hist.offline = 0
    /\ orch.mspt = None
    /\ call.ret = EmptyDict

\* C3 as stated: for the example, the online merge over the VM snapshots
\* {VM 1: pages 1,3; VM 2: pages 2,4} reports exactly 1 merged pair and 4096
\* bytes saved, whether or not applications 1 and 2 were clustered together.
C3_FixtureOneMerge ==
    FixtureOnline =>
        LastOnline.pages_merged = 1 /\ LastOnline.memory_saved_bytes = PAGE_SIZE

\* C3, amended: for the example, the online merge over the VM snapshots
\* reports exactly 4 merged pairs and 16384 bytes saved (the keys (1,2),
\* (3,4), (2,2) and (4,4)), whether or not applications 1 and 2 were
\* clustered together.
C3_FixtureFourMerges ==
    FixtureOnline =>
        LastOnline.pages_merged = 4 /\ LastOnline.memory_saved_bytes = 4 * PAGE_SIZE

\* the example was merged after an offline phase that put applications 1
\* and 2 in one cluster, by a separate online_processing call
C3_Witness ==
    /\ FixtureOnline
    /\ Clustered12
    /\ call.op = "online_processing"
    /\ LastOnline.pages_merged > 0

\* C29: every online_processing call on an orchestrator that has an index
\* binds a newly constructed engine and leaves the earlier engines as they
\* were, so the statistics of its result are that call's own pages_merged and
\* memory_saved_bytes and include nothing of earlier online calls.
C29_FreshEnginePerCall ==
    /\ []((call.op \in {"online_processing", "run_complete_pipeline"}
              /\ ~call.raised /\ LastOnline # EmptyDict) =>
             /\ LastOnline.statistics.total_pages_merged = LastOnline.pages_merged
             /\ LastOnline.statistics.total_memory_saved_bytes = LastOnline.memory_saved_bytes
             /\ orch.dedup_engine = Some(Len(engines))
             /\ engines[Len(engines)].dedup_count = LastOnline.pages_merged
             /\ engines[Len(engines)].total_memory_saved = LastOnline.memory_saved_bytes)
    /\ [][(OnlineStep /\ orch.mspt # None) =>
             /\ Len(engines') = Len(engines) + 1
             /\ SubSeq(engines', 1, Len(engines)) = engines
             /\ engines'[Len(engines')].mspt = orch.mspt]_vars

\* a second online phase merged pages on an orchestrator whose first online
\* phase had merged pages too
C29_Witness ==
    /\ call.op = "online_processing"
    /\ ~call.raised
    /\ Len(engines) = 2
    /\ engines[1].dedup_count > 0
    /\ call.ret.pages_merged > 0
    /\ call.ret.statistics.total_pages_merged = call.ret.pages_merged

\* C21: in any sequence of offline_processing, online_processing and
\* run_complete_pipeline calls on one orchestrator, every table of the heap
\* is the complete build of its offline phase, the orchestrator and every
\* engine refer to such a table (an engine never to an absent one), and a
\* call that looked pages up came after an offline phase and did not raise.
C21_LookupsAfterBuild ==
    /\ Len(hist.builds) = Len(indexes)
    /\ \A k \in 1..Len(indexes) :
          indexes[k] = build_table(NewTable, AllPages(hist.builds[k][1]), hist.builds[k][2]).table
    /\ orch.mspt # None => orch.mspt[1] \in 1..Len(indexes)
    /\ \A k \in 1..Len(engines) :
          engines[k].mspt # None /\ engines[k].mspt[1] \in 1..Len(indexes)
    /\ (call.op \in {"online_processing", "run_complete_pipeline"} /\ call.lookups > 0) =>
          hist.offline >= 1 /\ ~call.raised

\* the second online_processing after an offline phase has looked pages up
\* in an index that has entries
C21_Witness ==
    /\ call.op = "online_processing"
    /\ call.lookups > 0
    /\ Len(engines) = 2
    /\ Len(indexes) = 1
    /\ indexes[1].entry_counter > 0

\* the last call was run_complete_pipeline on no applications
RanOnNothing == call.op = "run_complete_pipeline" /\ hist.last_contents = Some(<<>>)

\* C15: run_complete_pipeline with an empty app_contents, whatever app_pages
\* and vm_pages are, raises nothing and yields an empty cluster map, no
\* similar pairs, an index without entries, zero pages merged and zero bytes
\* saved.
C15_NoApplications ==
    RanOnNothing =>
        /\ ~call.raised
        /\ call.ret # EmptyDict
        /\ call.ret.offline.application_clusters = <<>>
        /\ call.ret.offline.num_clusters = 0
        /\ call.ret.offline.similar_page_pairs = <<>>
        /\ call.ret.offline.num_similar_pairs = 0
        /\ call.ret.offline.mspt_entries = 0
        /\ indexes[orch.mspt[1]].table = EmptyDict
        /\ call.ret.online # EmptyDict
        /\ call.ret.online.pages_merged = 0
        /\ call.ret.online.memory_saved_bytes = 0
        /\ call.ret.summary.total_applications = 0
        /\ call.ret.summary.application_clusters = 0
        /\ call.ret.summary.similar_page_pairs = 0
        /\ call.ret.summary.mspt_entries = 0
        /\ call.ret.summary.pages_merged = 0

\* the pipeline has run on no applications but with the example's pages and
\* VM snapshots, so the online phase has looked pages up
C15_Witness ==
    /\ RanOnNothing
    /\ hist.last_app_pages = Some(FixtureAppPages)
    /\ call.vm_pages = FixtureVmPages
    /\ call.lookups > 0

----------------------------------------------------------------------------
(* SpecScore: the two scoring functions called on their own,               *)
(* FuzzyHashingModule.calculate_similarity on two digests and              *)
(* GeneticAlgorithmModule.fitness_function on two pages.                   *)

Chars == {"a", "b"}
ScoreInputs == SeqUpTo(Chars, MaxScoreLen)

\* the two strings to score are fixed at the start
ScoreInit ==
    /\ indexes = <<>>
    /\ engines = <<>>
    /\ orch = NewOrchestrator
    /\ cl = IdleFrame
    /\ call = NoCall
    /\ \E x \in ScoreInputs, y \in ScoreInputs : hist = [x |-> x, y |-> y] @@ NoHistory
    /\ rng = <<>>

\* calculate_similarity(x, y)
Similarity ==
    /\ call.op # "calculate_similarity"
    /\ \E raised \in {SimilarityError(hist.x, hist.y)} :
          call' = [op |-> "calculate_similarity", hash1 |-> hist.x, hash2 |-> hist.y,
                   raised |-> raised,
                   ret |-> IF raised = "none"
                           THEN Some(calculate_similarity(hist.x, hist.y)) ELSE None]
    /\ UNCHANGED <<indexes, engines, orch, cl, hist, rng>>

\* fitness_function of two pages whose object dumps are x and y
Fitness ==
    /\ call.op # "fitness_function"
    /\ call' = [op |-> "fitness_function", dump1 |-> hist.x, dump2 |-> hist.y,
                raised |-> "none",
                distance |-> edit_distance(hist.x, hist.y),
                ret |-> Some(fitness_function(Page(1, 1, 1, "hash1", hist.x),
                                              Page(2, 1, 1, "hash2", hist.y)))]
    /\ UNCHANGED <<indexes, engines, orch, cl, hist, rng>>

ScoreNext == Similarity \/ Fitness

SpecScore == ScoreInit /\ [][ScoreNext]_vars

----------------------------------------------------------------------------
(* Properties of the scoring functions.                                    *)

SimilarityCalled == call.op = "calculate_similarity"
FitnessCalled == call.op = "fitness_function"

\* C11: calculate_similarity, called with two digests of differing length,
\* fails with a ConfigurationError instead of returning a score.
C11_MismatchedLengthsRejected ==
    (SimilarityCalled /\ Len(call.hash1) # Len(call.hash2)) =>
        call.raised = "ConfigurationError"

\* C13: on digests of equal length calculate_similarity is symmetric, and it
\* gives 100 for a digest and itself.
C13_SymmetricReflexive ==
    (SimilarityCalled /\ Len(call.hash1) = Len(call.hash2)) =>
        /\ call.raised = "none"
        /\ SimilarityError(call.hash2, call.hash1) = "none"
        /\ call.ret = Some(calculate_similarity(call.hash2, call.hash1))
        /\ (call.hash1 = call.hash2 => call.ret = Some(10000))

\* two different digests of the same length that agree somewhere have been
\* compared
C13_Witness ==
    /\ SimilarityCalled
    /\ Len(call.hash1) = Len(call.hash2)
    /\ call.hash1 # call.hash2
    /\ call.ret # None
    /\ call.ret[1] > 0 /\ call.ret[1] < 10000

\* the Levenshtein distance by its defining recursion: the cheapest of
\* deleting a head, inserting a head, and matching or substituting the heads
RECURSIVE Levenshtein(_, _)
Levenshtein(s, t) ==
    IF s = <<>> THEN Len(t)
    ELSE IF t = <<>> THEN Len(s)
    ELSE Min(Levenshtein(Tail(s), t) + 1,
             Min(Levenshtein(s, Tail(t)) + 1,
                 Levenshtein(Tail(s), Tail(t)) + (IF Head(s) # Head(t) THEN 1 ELSE 0)))

\* C14: fitness_function gives 100 for identical object dumps (both empty
\* included); otherwise it gives 100 * (1 - edit_distance / max(len)), here
\* rounded down to hundredths, where edit_distance is the Levenshtein
\* distance; the result always lies in [0, 100].
C14_FitnessFormula ==
    FitnessCalled =>
        LET max_len == Max(Len(call.dump1), Len(call.dump2))
            distance == Levenshtein(call.dump1, call.dump2)
            fitness == call.ret[1]
        IN /\ call.distance = distance
           /\ fitness >= 0 /\ fitness <= 10000
           /\ (call.dump1 = call.dump2 => fitness = 10000)
           /\ (call.dump1 # call.dump2 =>
                  /\ fitness * max_len <= 10000 * (max_len - distance)
                  /\ 10000 * (max_len - distance) < (fitness + 1) * max_len)

\* two dumps of different lengths that share a character have been scored,
\* strictly between 0 and 100
C14_Witness ==
    /\ FitnessCalled
    /\ Len(call.dump1) < Len(call.dump2)
    /\ call.distance > 1
    /\ call.ret[1] > 0 /\ call.ret[1] < 10000

----------------------------------------------------------------------------
(* SpecExplorer: one GeneticAlgorithmModule, constructed with any          *)
(* population_size and generations (__init__ stores what it is given),     *)
(* and one list of pages; detect_similar_pages is applied to it.           *)

\* object dumps at distances 0, 1, 3 and 4 of each other
ExplorerDumps == {<<"a", "a", "a", "a">>, <<"a", "a", "a", "b">>, <<"b", "b", "b", "b">>}

\* lists of pages with the ids 1..n
ExplorerPages ==
    {[i \in 1..Len(d) |-> Page(i, 1, 1, "hash", d[i])] :
        d \in SeqUpTo(ExplorerDumps, MaxExplorerPages)}

\* draws of the mutation loop; <<0, 1, 1>> writes (pages[0], pages[1]) over
\* the second individual
ExplorerDraws == Draws \cup {<<0, 1, 1>>}

ExplorerInit ==
    /\ indexes = <<>>
    /\ engines = <<>>
    /\ orch = NewOrchestrator
    /\ cl = IdleFrame
    /\ call = NoCall
    /\ \E pages \in ExplorerPages, population_size \in -1..MaxPopulation,
          generations \in -1..MaxGenerations :
          hist = [pages |-> pages, population_size |-> population_size,
                  generations |-> generations] @@ NoHistory
    /\ rng \in SeqUpTo(ExplorerDraws, MaxDraws)

\* detect_similar_pages(pages) on the explorer
Discover ==
    /\ call.op # "detect_similar_pages"
    /\ \E r \in {detect_similar_pages(hist.pages, hist.population_size, hist.generations, rng)} :
          /\ call' = [op |-> "detect_similar_pages", pages |-> hist.pages,
                      population_size |-> hist.population_size,
                      generations |-> hist.generations, tape |-> rng,
                      raised |-> "none", ret |-> Some(r.ret), trace |-> r.trace]
          /\ rng' = r.tape
    /\ UNCHANGED <<indexes, engines, orch, cl, hist>>

ExplorerNext == Discover

SpecExplorer == ExplorerInit /\ [][ExplorerNext]_vars

Discovered == call.op = "detect_similar_pages"

\* C12: an explorer with a non-positive population size or a non-positive
\* generation count is rejected with a ConfigurationError instead of running
\* the search and returning a result.
C12_BadParametersRejected ==
    (Discovered /\ (call.population_size <= 0 \/ call.generations <= 0)) =>
        call.raised = "ConfigurationError"

\* the passes of the last discover() and what each worked on
Passes == 1..Len(call.trace)
PassSize(g) == Len(call.trace[g].population)
PassScore(g, i) == call.trace[g].fitness_scores[i]
PassTuple(g, i) ==
    <<call.trace[g].population[i][1].page_id, call.trace[g].population[i][2].page_id,
      PassScore(g, i)>>

\* how many individuals of pass g come before individual i: those with a
\* higher score, and those with the same score and an earlier place
Rank(g, i) ==
    Cardinality({j \in 1..PassSize(g) :
        \/ PassScore(g, j) > PassScore(g, i)
        \/ PassScore(g, j) = PassScore(g, i) /\ j < i})

\* how many individuals a pass keeps: the top population_size (a negative
\* population_size drops that many from the end instead)
Kept(g) ==
    IF call.population_size >= 0 THEN Min(call.population_size, PassSize(g))
    ELSE Max(0, PassSize(g) + call.population_size)

Survivor(g, i) == Rank(g, i) < Kept(g)

\* the tuples pass g appends, best survivor first
RECURSIVE AppendedFrom(_, _)
AppendedFrom(g, rank) ==
    IF rank >= Kept(g) THEN <<>>
    ELSE LET i == CHOOSE j \in 1..PassSize(g) : Rank(g, j) = rank
         IN (IF PassScore(g, i) > FITNESS_THRESHOLD * 100 THEN <<PassTuple(g, i)>> ELSE <<>>)
            \o AppendedFrom(g, rank + 1)

RECURSIVE AppendedUpTo(_)
AppendedUpTo(g) == IF g = 0 THEN <<>> ELSE AppendedUpTo(g - 1) \o AppendedFrom(g, 0)

Occurrences(s, t) == Cardinality({k \in 1..Len(s) : s[k] = t})

\* the passes in which tuple t is a survivor scoring above the threshold
SurvivedIn(t) ==
    {g \in Passes : \E i \in 1..PassSize(g) :
        Survivor(g, i) /\ PassTuple(g, i) = t /\ t[3] > FITNESS_THRESHOLD * 100}

\* no draw of the call mutated
NoDrawMutates == \A k \in 1..Len(call.tape) : call.tape[k] = NoMutation

\* C27: every tuple discover() returns names two different pages, in every
\* generation and whatever the mutation draws.
C27_DistinctPages ==
    Discovered => \A k \in 1..Len(call.ret[1]) : call.ret[1][k][1] # call.ret[1][k][2]

\* the claim as stated: a tuple appears once for each generation in which its
\* pair is a survivor scoring above 70
C20_OncePerGeneration ==
    Discovered =>
        \A k \in 1..Len(call.ret[1]) :
            Occurrences(call.ret[1], call.ret[1][k]) = Cardinality(SurvivedIn(call.ret[1][k]))

\* C20: every tuple returned by discover() scores strictly above 70 and was a
\* survivor of the generation that appended it; nothing is deduplicated: the
\* result is, generation after generation, one tuple for each surviving
\* individual scoring above 70, best first, so a pair appears once for every
\* such individual (twice in one generation when mutation has made two
\* individuals of it); with no mutation and at most P candidate pairs every
\* initial pair scoring above 70 appears exactly G times.
C20_SurvivorsAppended ==
    Discovered =>
        /\ \A k \in 1..Len(call.ret[1]) : call.ret[1][k][3] > FITNESS_THRESHOLD * 100
        /\ \A k \in 1..Len(call.ret[1]) : SurvivedIn(call.ret[1][k]) # {}
        /\ call.ret[1] = AppendedUpTo(Len(call.trace))
        /\ Len(call.pages) >= 2 => Len(call.trace) = Max(0, call.generations)
        /\ (NoDrawMutates /\ Len(call.trace) >= 1
              /\ PassSize(1) <= call.population_size) =>
                 \A i \in 1..Len(call.pages) : \A j \in (i + 1)..Len(call.pages) :
                    LET t == <<i, j, fitness_function(call.pages[i], call.pages[j])>>
                    IN Occurrences(call.ret[1], t) =
                          IF t[3] > FITNESS_THRESHOLD * 100 THEN Max(0, call.generations) ELSE 0

\* a mutation has made two individuals of one pair: the pair survived one
\* pass once and the next pass twice, and is returned three times
C20_Witness ==
    /\ Discovered
    /\ call.generations = 2 /\ call.population_size = 3
    /\ \E k \in 1..Len(call.ret[1]) :
          /\ Occurrences(call.ret[1], call.ret[1][k]) = 3
          /\ Cardinality(SurvivedIn(call.ret[1][k])) = 2
    /\ \E g \in Passes : \E i \in 1..PassSize(g) :
          ~Survivor(g, i) \/ PassScore(g, i) <= FITNESS_THRESHOLD * 100

====
